---- MODULE Spec2Model ----
(***************************************************************************)
(* gnmireverse client (src/gnmireverse/client/main.go).                    *)
(*                                                                         *)
(* main builds the collector credentials, dials the collector and the      *)
(* target, and then loops forever: every iteration creates an errgroup     *)
(* with a derived context and an unbuffered channel c, starts publish and  *)
(* subscribe in their own goroutines, waits for both and logs the error.   *)
(*                                                                         *)
(* The three goroutines (main, publish, subscribe) are modelled as three   *)
(* program counters.  The state of an iteration (its context, its          *)
(* errgroup, its channel, the two goroutines and their locals) is indexed  *)
(* by the iteration number, so that goroutines of different iterations     *)
(* can be told apart.  The gRPC streams are the environment: each stream   *)
(* operation returns one of the results gRPC can give.                     *)
(***************************************************************************)
EXTENDS Integers, Sequences, FiniteSets, TLC

\* ------------------------------------------------------------------ bounds
\* Number of iterations of the retry loop (main.go:127) that are explored.
MaxIter == 3
\* Number of messages the target stream delivers within one iteration.
MaxMsgs == 2
\* Number of -subscribe flags on the command line.
MaxPaths == 2

Iters == 1..MaxIter

\* Payloads of the update messages the target sends (opaque to the client).
Msgs == {"a", "b"}

\* ------------------------------------------------------------------ values
\* error values: nil, context.Canceled (ctx.Err() of a cancelled context),
\* and the errors built with fmt.Errorf around the error of a stream call.
Nil == [op |-> "nil", cause |-> "nil"]
Canceled == [op |-> "ctx", cause |-> "canceled"]
Errorf(op, cause) == [op |-> op, cause |-> cause]

\* The zero value of a *gnmi.SubscribeResponse local.
NoMsg == [it |-> 0, seq |-> 0, val |-> "none"]

VARIABLES
    mainPc,         \* position of main
    iter,           \* number of the current loop iteration (0 before the loop)
    err,            \* main's err variable
    logged,         \* what glog wrote last
    nLogs,          \* number of glog.Errorf calls of the retry loop
    starts,         \* number of session pairs started
    tlsDialOption,  \* result of newTLSConfig
    destConn,       \* number of times the collector was dialed
    targetConn,     \* number of times the target was dialed
    ctxDone,        \* ctxDone[k]: the context of iteration k is cancelled
    egErr,          \* egErr[k]: the error the errgroup has kept (the first
                    \* non-nil one a goroutine handed to it)
    wg,             \* wg[k]: the errgroup's WaitGroup counter
    c,              \* c[k]: identity of the channel made in iteration k
    pubPc,          \* position of publish of iteration k
    subPc,          \* position of subscribe of iteration k
    response,       \* publish's local "response"
    resp,           \* subscribe's local "resp"
    pubRet,         \* what publish returned
    subRet,         \* what subscribe returned
    pubStream,      \* state of the Publish stream of iteration k
    subStream,      \* state of the Subscribe stream of iteration k
    recvd,          \* messages stream.Recv returned in iteration k, in order
    sent,           \* messages stream.Send accepted in iteration k, in order
    exited,         \* the sessions of iteration k, in the order publish and
                    \* subscribe returned to their goroutine's closure
    flags,          \* the flags: username, password, target_value, the
                    \* -subscribe values of the command line and the paths
                    \* flag.Parse made of them, and the collector_* TLS flags
    tlsCall,        \* the arguments of the call of newTLSConfig and what the
                    \* file system answered, until main's next statement
    pubMd,          \* outgoing metadata of the context publish opens its stream on
    subMd,          \* outgoing metadata of the context subscribe opens its stream on
    reqSent         \* the requests subscribe passed to stream.Send in iteration k

mainVars == <<mainPc, iter, err, logged, nLogs, starts, tlsDialOption, destConn, targetConn>>
egVars == <<ctxDone, egErr, wg, c, exited>>
pubVars == <<pubPc, response, pubRet, pubStream, sent>>
subVars == <<subPc, resp, subRet, subStream, recvd>>
cfgVars == <<flags, tlsCall>>
callVars == <<pubMd, subMd, reqSent>>
vars == <<mainVars, egVars, pubVars, subVars, cfgVars, callVars>>

\* ------------------------------------------------------- newTLSConfig
\* File names given on the command line: "" (flag not given) or a path.
FileNames == {"", "f"}

\* What the file system answers: whether ioutil.ReadFile(caFile) succeeds,
\* whether AppendCertsFromPEM accepts its contents, and whether
\* tls.LoadX509KeyPair(certFile, keyFile) succeeds.
FileSystems == [caRead : BOOLEAN, caPEM : BOOLEAN, keyPair : BOOLEAN]

NoOption == [kind |-> "nil", skipVerify |-> FALSE, rootCAs |-> "none", cert |-> FALSE]
WithInsecure == [kind |-> "insecure", skipVerify |-> FALSE, rootCAs |-> "none", cert |-> FALSE]
WithTLS(skip, roots, cert) == [kind |-> "tls", skipVerify |-> skip, rootCAs |-> roots, cert |-> cert]

\* Mutant of newTLSConfig: a certificate file without a key file is ignored
\* (the key pair is loaded only when both files are given).
newTLSConfig_nokey(useTLS, skipVerify, certFile, keyFile, caFile, fs) ==
    LET roots == IF ~skipVerify /\ caFile # "" THEN "file" ELSE "system"
    IN  IF ~useTLS THEN [opt |-> WithInsecure, err |-> "nil"]
        ELSE IF ~skipVerify /\ caFile # "" /\ ~fs.caRead
            THEN [opt |-> NoOption, err |-> "ReadFile"]
        ELSE IF ~skipVerify /\ caFile # "" /\ ~fs.caPEM
            THEN [opt |-> NoOption, err |-> "credentials: failed to append certificates"]
        ELSE IF certFile # "" /\ keyFile # "" /\ ~fs.keyPair
            THEN [opt |-> NoOption, err |-> "LoadX509KeyPair"]
        ELSE [opt |-> WithTLS(skipVerify, roots, certFile # "" /\ keyFile # ""), err |-> "nil"]

\* Mutant of newTLSConfig: the CA file is read whenever it is given, also
\* with skip-verify set ("if caFile" in place of "else if caFile").
newTLSConfig_readca(useTLS, skipVerify, certFile, keyFile, caFile, fs) ==
    LET roots == IF caFile # "" THEN "file" ELSE "system"
    IN  IF ~useTLS THEN [opt |-> WithInsecure, err |-> "nil"]
        ELSE IF caFile # "" /\ ~fs.caRead
            THEN [opt |-> NoOption, err |-> "ReadFile"]
        ELSE IF caFile # "" /\ ~fs.caPEM
            THEN [opt |-> NoOption, err |-> "credentials: failed to append certificates"]
        ELSE IF certFile # "" /\ keyFile = ""
            THEN [opt |-> NoOption, err |-> "please provide both -collector_certfile and -collector_keyfile"]
        ELSE IF certFile # "" /\ ~fs.keyPair
            THEN [opt |-> NoOption, err |-> "LoadX509KeyPair"]
        ELSE [opt |-> WithTLS(skipVerify, roots, certFile # ""), err |-> "nil"]

\* main.go:52-82.  Returns the dial option and the error.
newTLSConfig(useTLS, skipVerify, certFile, keyFile, caFile, fs) ==
    LET roots == IF ~skipVerify /\ caFile # "" THEN "file" ELSE "system"
    IN  IF ~useTLS THEN [opt |-> WithInsecure, err |-> "nil"]
        ELSE IF ~skipVerify /\ caFile # "" /\ ~fs.caRead
            THEN [opt |-> NoOption, err |-> "ReadFile"]
        ELSE IF ~skipVerify /\ caFile # "" /\ ~fs.caPEM
            THEN [opt |-> NoOption, err |-> "credentials: failed to append certificates"]
        ELSE IF certFile # "" /\ keyFile = ""
            THEN [opt |-> NoOption, err |-> "please provide both -collector_certfile and -collector_keyfile"]
        ELSE IF certFile # "" /\ ~fs.keyPair
            THEN [opt |-> NoOption, err |-> "LoadX509KeyPair"]
        ELSE [opt |-> WithTLS(skipVerify, roots, certFile # ""), err |-> "nil"]

\* The arguments of a call of newTLSConfig with the answers of the file system.
TLSCall(useTLS, skipVerify, certFile, keyFile, caFile, fs) ==
    [called |-> TRUE, useTLS |-> useTLS, skipVerify |-> skipVerify,
     certFile |-> certFile, keyFile |-> keyFile, caFile |-> caFile, fs |-> fs]

\* newTLSConfig is not being called.
NoCall ==
    [called |-> FALSE, useTLS |-> FALSE, skipVerify |-> FALSE,
     certFile |-> "", keyFile |-> "", caFile |-> "",
     fs |-> [caRead |-> FALSE, caPEM |-> FALSE, keyPair |-> FALSE]]

\* ------------------------------------------------------- flags of the sessions
\* Values of -username, -password and -target_value: "" is the default.
Usernames == {"", "admin"}
Passwords == {"", "secret"}
Targets == {"", "dev1"}

\* Values of the -subscribe flag: two paths, and a string that is no path
\* (a key that is not closed).
PathArgs == {"/a", "/a/b", "/a[b"}

\* gnmilib.ParseGNMIElements(gnmilib.SplitPath(s)) (main.go:44): the path
\* string as a gnmi.Path, a sequence of elements, or an error.
ParsePath(s) ==
    IF s = "/a" THEN [path |-> [elem |-> <<"a">>], err |-> FALSE]
    ELSE IF s = "/a/b" THEN [path |-> [elem |-> <<"a", "b">>], err |-> FALSE]
    ELSE [path |-> [elem |-> <<>>], err |-> TRUE]

\* Mutant of multiPathSet: a path that is already in m.p is not added again.
multiPathSet_set(m, s) ==
    LET r == ParsePath(s)
    IN  IF r.err THEN [p |-> m, err |-> TRUE]
        ELSE IF \E i \in 1..Len(m) : m[i] = r.path THEN [p |-> m, err |-> FALSE]
        ELSE [p |-> Append(m, r.path), err |-> FALSE]

\* main.go:43-50: multiPath.Set returns the error of the parser and leaves
\* m.p alone, or appends the parsed path to m.p.  The result is m.p after the
\* call and whether Set returned an error.
multiPathSet(m, s) ==
    LET r == ParsePath(s)
    IN  IF r.err THEN [p |-> m, err |-> TRUE]
        ELSE [p |-> Append(m, r.path), err |-> FALSE]

\* flag.Parse (main.go:110) calls Set once for every -subscribe flag, in the
\* order of the command line, and stops at the first one whose Set returns
\* an error.
RECURSIVE ParseSubscribeFlags(_)
ParseSubscribeFlags(args) ==
    IF args = <<>> THEN [p |-> <<>>, err |-> FALSE]
    ELSE LET before == ParseSubscribeFlags(SubSeq(args, 1, Len(args) - 1))
         IN  IF before.err THEN before
             ELSE multiPathSet(before.p, args[Len(args)])

\* The command lines: at most MaxPaths -subscribe flags.
SubscribeArgs == UNION {[1..n -> PathArgs] : n \in 0..MaxPaths}

\* main.go:85-108: the flags of a command line that sets none of them
\* (-collector_tls is true by default).  "subscribe" are the values of the
\* -subscribe flags as given, "paths" (paths.p) is empty until flag.Parse
\* has looked at them.
DefaultFlags ==
    [username |-> "", password |-> "", target |-> "", subscribe |-> <<>>, paths |-> <<>>,
     useTLS |-> TRUE, skipVerify |-> FALSE, certFile |-> "", keyFile |-> "", caFile |-> ""]

\* The command lines that set the flags the sessions read.
SessionFlags ==
    {[DefaultFlags EXCEPT !.username = u, !.password = p, !.target = t, !.subscribe = a] :
        u \in Usernames, p \in Passwords, t \in Targets, a \in SubscribeArgs}

\* The command lines that set the flags newTLSConfig reads.
TLSFlags ==
    {[DefaultFlags EXCEPT !.useTLS = u, !.skipVerify = v,
                          !.certFile = cert, !.keyFile = key, !.caFile = ca] :
        u \in BOOLEAN, v \in BOOLEAN, cert \in FileNames, key \in FileNames, ca \in FileNames}

\* The command lines explored.
Flags == SessionFlags \cup TLSFlags

\* main.go:170-186: the SubscribeRequest subscribe builds.
SubscribeRequest(target, paths) ==
    [prefix |-> [target |-> target],
     subscription |-> [i \in 1..Len(paths) |-> [path |-> paths[i], mode |-> "TARGET_DEFINED"]]]

\* Outgoing metadata of a context: none was attached, or the pairs.
NoMd == [pairs |-> FALSE, username |-> "", password |-> ""]
MdPairs(username, password) == [pairs |-> TRUE, username |-> username, password |-> password]

\* Mutant of SubscribeMd: the pairs are attached when either credential is set.
SubscribeMd_either(username, password) ==
    IF username # "" \/ password # "" THEN MdPairs(username, password) ELSE NoMd

\* main.go:188-194: the metadata of the context subscribe calls Subscribe with.
SubscribeMd(username, password) ==
    IF username # "" THEN MdPairs(username, password) ELSE NoMd

\* The stream was not opened (yet): there is no call whose context to look at.
NotCalled == [pairs |-> FALSE, username |-> "-", password |-> "-"]

\* ------------------------------------------------------------ Init
\* Blank per-iteration state: no errgroup, context, channel or goroutine yet.
Blank(v) == [k \in Iters |-> v]

\* main.go:84-109: the state when main calls flag.Parse, but for the flags.
InitState ==
    /\ mainPc = "flagParse"
    /\ iter = 0
    /\ err = Nil
    /\ logged = Nil
    /\ nLogs = 0
    /\ starts = 0
    /\ tlsDialOption = NoOption
    /\ destConn = 0
    /\ targetConn = 0
    /\ ctxDone = Blank(FALSE)
    /\ egErr = Blank(Nil)
    /\ wg = Blank(0)
    /\ c = Blank(0)
    /\ exited = Blank(<<>>)
    /\ pubPc = Blank("idle")
    /\ subPc = Blank("idle")
    /\ response = Blank(NoMsg)
    /\ resp = Blank(NoMsg)
    /\ pubRet = Blank(Nil)
    /\ subRet = Blank(Nil)
    /\ pubStream = Blank("none")
    /\ subStream = Blank("none")
    /\ recvd = Blank(<<>>)
    /\ sent = Blank(<<>>)
    /\ tlsCall = NoCall
    /\ pubMd = Blank(NotCalled)
    /\ subMd = Blank(NotCalled)
    /\ reqSent = Blank(<<>>)

\* The program started with no flag set on the command line.
Init ==
    /\ InitState
    /\ flags = DefaultFlags

\* The program started with any of the command lines.
ConfigInit ==
    /\ InitState
    /\ flags \in Flags

\* ------------------------------------------------------------ main: startup
\* main.go:110: flag.Parse calls paths.Set for the -subscribe flags; when a
\* Set returns an error it prints the usage and exits with status 2.
MainFlagParse ==
    /\ mainPc = "flagParse"
    /\ LET r == ParseSubscribeFlags(flags.subscribe)
       IN  /\ flags' = [flags EXCEPT !.paths = r.p]
           /\ mainPc' = IF r.err THEN "exit" ELSE "newTLSConfig"
    /\ UNCHANGED <<iter, err, logged, nLogs, starts, tlsDialOption, destConn, targetConn>>
    /\ UNCHANGED <<egVars, pubVars, subVars, tlsCall, callVars>>

\* main.go:112-115: newTLSConfig on the parsed flags, with whatever the file
\* system answers; glog.Fatal on error.
MainNewTLSConfig ==
    /\ mainPc = "newTLSConfig"
    /\ \E fs \in FileSystems :
            LET r == newTLSConfig(flags.useTLS, flags.skipVerify, flags.certFile,
                                  flags.keyFile, flags.caFile, fs)
            IN  /\ tlsCall' = TLSCall(flags.useTLS, flags.skipVerify, flags.certFile,
                                      flags.keyFile, flags.caFile, fs)
                /\ tlsDialOption' = r.opt
                /\ IF r.err # "nil"
                     THEN /\ mainPc' = "fatal"
                          /\ logged' = Errorf("newTLSConfig", r.err)
                     ELSE /\ mainPc' = "dialDest"
                          /\ logged' = logged
    /\ UNCHANGED <<iter, err, nLogs, starts, destConn, targetConn>>
    /\ UNCHANGED <<egVars, pubVars, subVars, flags, callVars>>

\* main.go:118-121: grpc.Dial of the collector; glog.Fatalf on error.
MainDialDest ==
    /\ mainPc = "dialDest"
    /\ \E ok \in BOOLEAN :
        IF ok
          THEN /\ destConn' = destConn + 1
               /\ mainPc' = "dialTarget"
               /\ logged' = logged
          ELSE /\ destConn' = destConn
               /\ mainPc' = "fatal"
               /\ logged' = Errorf("error dialing destination", "fault")
    /\ tlsCall' = NoCall
    /\ UNCHANGED <<iter, err, nLogs, starts, tlsDialOption, targetConn>>
    /\ UNCHANGED <<egVars, pubVars, subVars, flags, callVars>>

\* Mutant of MainDialTarget: the error of the dial is logged with glog.Errorf
\* and main goes on.
MainDialTarget_goon ==
    /\ mainPc = "dialTarget"
    /\ \E ok \in BOOLEAN :
        IF ok
          THEN /\ targetConn' = targetConn + 1
               /\ mainPc' = "top"
               /\ logged' = logged
          ELSE /\ targetConn' = targetConn
               /\ mainPc' = "top"
               /\ logged' = Errorf("error dialing target", "fault")
    /\ UNCHANGED <<iter, err, nLogs, starts, tlsDialOption, destConn>>
    /\ UNCHANGED <<egVars, pubVars, subVars, cfgVars, callVars>>

\* main.go:122-125: grpc.Dial of the target; glog.Fatalf on error.
MainDialTarget ==
    /\ mainPc = "dialTarget"
    /\ \E ok \in BOOLEAN :
        IF ok
          THEN /\ targetConn' = targetConn + 1
               /\ mainPc' = "top"
               /\ logged' = logged
          ELSE /\ targetConn' = targetConn
               /\ mainPc' = "fatal"
               /\ logged' = Errorf("error dialing target", "fault")
    /\ UNCHANGED <<iter, err, nLogs, starts, tlsDialOption, destConn>>
    /\ UNCHANGED <<egVars, pubVars, subVars, cfgVars, callVars>>

\* ------------------------------------------------------------ errgroup
\* A goroutine of iteration k is running: in publish or subscribe, or back
\* in the function errgroup.Group.Go runs around them.
PubActive(k) == pubPc[k] \notin {"idle", "done"}
SubActive(k) == subPc[k] \notin {"idle", "done"}

\* publish or subscribe of iteration k has returned.
PubReturned(k) == pubPc[k] \in {"returned", "registered", "done"}
SubReturned(k) == subPc[k] \in {"returned", "registered", "done"}

\* Nothing refers to the errgroup, context, channel and streams of iteration
\* k any more: both goroutines have returned and main has moved on.
Unreachable(k) == k < iter + 1 /\ pubPc[k] = "done" /\ subPc[k] = "done"

\* The per-iteration variable f once main rebinds eg, ctx and c for iteration
\* n (main.go:131-134): the objects of finished iterations are garbage, the
\* ones of iteration n are new.
Rebind(f, n, new, zero) ==
    [k \in Iters |-> IF k = n THEN new ELSE IF Unreachable(k) THEN zero ELSE f[k]]

\* publish or subscribe returns to the closure main handed to eg.Go
\* (main.go:136, main.go:139).  The errgroup has not seen the error yet.
Return(k, who) ==
    /\ exited' = [exited EXCEPT ![k] = Append(@, who)]
    /\ UNCHANGED <<ctxDone, egErr, wg, c>>

\* Mutant of EgReturn: every non-nil error overwrites the group's error (no
\* sync.Once around the assignment).
EgReturn_last(k, e) ==
    /\ egErr' = [egErr EXCEPT ![k] = IF e # Nil THEN e ELSE @]
    /\ ctxDone' = [ctxDone EXCEPT ![k] = @ \/ e # Nil]
    /\ UNCHANGED <<wg, c, exited>>

\* The function errgroup.Group.Go runs around the closure (main.go:135,
\* main.go:138), once the closure has returned e: under errOnce the first
\* non-nil error is kept and cancels the context.  The WaitGroup is not
\* touched yet.
EgReturn(k, e) ==
    /\ egErr' = [egErr EXCEPT ![k] = IF e # Nil /\ @ = Nil THEN e ELSE @]
    /\ ctxDone' = [ctxDone EXCEPT ![k] = @ \/ e # Nil]
    /\ UNCHANGED <<wg, c, exited>>

\* The deferred wg.Done() of that function, with which the goroutine ends.
EgDone(k) ==
    /\ wg' = [wg EXCEPT ![k] = @ - 1]
    /\ UNCHANGED <<ctxDone, egErr, c, exited>>

\* The errors a stream call can return: a fault of the transport or of the
\* peer at any time, and the cancellation of the call's context once the
\* context is cancelled.
StreamFaults(k) == IF ctxDone[k] THEN {"fault", "canceled"} ELSE {"fault"}

\* ------------------------------------------------------------ main: retry loop
\* Mutant of MainLoopTop: the channel is made once, before the loop, and every
\* iteration uses it.
MainLoopTop_shared ==
    /\ mainPc = "top"
    /\ iter < MaxIter
    /\ iter' = iter + 1
    /\ mainPc' = "goPublish"
    /\ ctxDone' = Rebind(ctxDone, iter + 1, FALSE, FALSE)
    /\ egErr' = Rebind(egErr, iter + 1, Nil, Nil)
    /\ wg' = Rebind(wg, iter + 1, 0, 0)
    /\ c' = [c EXCEPT ![iter + 1] = 1]
    /\ exited' = Rebind(exited, iter + 1, <<>>, <<>>)
    /\ response' = Rebind(response, iter + 1, NoMsg, NoMsg)
    /\ resp' = Rebind(resp, iter + 1, NoMsg, NoMsg)
    /\ pubRet' = Rebind(pubRet, iter + 1, Nil, Nil)
    /\ subRet' = Rebind(subRet, iter + 1, Nil, Nil)
    /\ pubStream' = Rebind(pubStream, iter + 1, "none", "none")
    /\ subStream' = Rebind(subStream, iter + 1, "none", "none")
    /\ recvd' = Rebind(recvd, iter + 1, <<>>, <<>>)
    /\ sent' = Rebind(sent, iter + 1, <<>>, <<>>)
    /\ pubMd' = Rebind(pubMd, iter + 1, NotCalled, NotCalled)
    /\ subMd' = Rebind(subMd, iter + 1, NotCalled, NotCalled)
    /\ reqSent' = Rebind(reqSent, iter + 1, <<>>, <<>>)
    /\ UNCHANGED <<err, logged, nLogs, starts, tlsDialOption, destConn, targetConn>>
    /\ UNCHANGED <<pubPc, subPc, cfgVars>>

\* Mutant of MainLoopTop: the two connections are dialed inside the loop.
MainLoopTop_redial ==
    /\ mainPc = "top"
    /\ iter < MaxIter
    /\ iter' = iter + 1
    /\ mainPc' = "goPublish"
    /\ ctxDone' = Rebind(ctxDone, iter + 1, FALSE, FALSE)
    /\ egErr' = Rebind(egErr, iter + 1, Nil, Nil)
    /\ wg' = Rebind(wg, iter + 1, 0, 0)
    /\ c' = [c EXCEPT ![iter + 1] = iter + 1]
    /\ exited' = Rebind(exited, iter + 1, <<>>, <<>>)
    /\ response' = Rebind(response, iter + 1, NoMsg, NoMsg)
    /\ resp' = Rebind(resp, iter + 1, NoMsg, NoMsg)
    /\ pubRet' = Rebind(pubRet, iter + 1, Nil, Nil)
    /\ subRet' = Rebind(subRet, iter + 1, Nil, Nil)
    /\ pubStream' = Rebind(pubStream, iter + 1, "none", "none")
    /\ subStream' = Rebind(subStream, iter + 1, "none", "none")
    /\ recvd' = Rebind(recvd, iter + 1, <<>>, <<>>)
    /\ sent' = Rebind(sent, iter + 1, <<>>, <<>>)
    /\ pubMd' = Rebind(pubMd, iter + 1, NotCalled, NotCalled)
    /\ subMd' = Rebind(subMd, iter + 1, NotCalled, NotCalled)
    /\ reqSent' = Rebind(reqSent, iter + 1, <<>>, <<>>)
    /\ destConn' = destConn + 1
    /\ targetConn' = targetConn + 1
    /\ UNCHANGED <<err, logged, nLogs, starts, tlsDialOption>>
    /\ UNCHANGED <<pubPc, subPc, cfgVars>>

\* Mutant of MainLoopTop: the context is derived from the context of the
\* iteration before (errgroup.WithContext(ctx)), which is cancelled by then.
MainLoopTop_derived ==
    /\ mainPc = "top"
    /\ iter < MaxIter
    /\ iter' = iter + 1
    /\ mainPc' = "goPublish"
    /\ ctxDone' = Rebind(ctxDone, iter + 1, iter > 0, FALSE)
    /\ egErr' = Rebind(egErr, iter + 1, Nil, Nil)
    /\ wg' = Rebind(wg, iter + 1, 0, 0)
    /\ c' = [c EXCEPT ![iter + 1] = iter + 1]
    /\ exited' = Rebind(exited, iter + 1, <<>>, <<>>)
    /\ response' = Rebind(response, iter + 1, NoMsg, NoMsg)
    /\ resp' = Rebind(resp, iter + 1, NoMsg, NoMsg)
    /\ pubRet' = Rebind(pubRet, iter + 1, Nil, Nil)
    /\ subRet' = Rebind(subRet, iter + 1, Nil, Nil)
    /\ pubStream' = Rebind(pubStream, iter + 1, "none", "none")
    /\ subStream' = Rebind(subStream, iter + 1, "none", "none")
    /\ recvd' = Rebind(recvd, iter + 1, <<>>, <<>>)
    /\ sent' = Rebind(sent, iter + 1, <<>>, <<>>)
    /\ pubMd' = Rebind(pubMd, iter + 1, NotCalled, NotCalled)
    /\ subMd' = Rebind(subMd, iter + 1, NotCalled, NotCalled)
    /\ reqSent' = Rebind(reqSent, iter + 1, <<>>, <<>>)
    /\ UNCHANGED <<err, logged, nLogs, starts, tlsDialOption, destConn, targetConn>>
    /\ UNCHANGED <<pubPc, subPc, cfgVars>>

\* main.go:127-134: a new errgroup with its context, and a new channel.
MainLoopTop ==
    /\ mainPc = "top"
    /\ iter < MaxIter
    /\ iter' = iter + 1
    /\ mainPc' = "goPublish"
    /\ ctxDone' = Rebind(ctxDone, iter + 1, FALSE, FALSE)
    /\ egErr' = Rebind(egErr, iter + 1, Nil, Nil)
    /\ wg' = Rebind(wg, iter + 1, 0, 0)
    /\ c' = [c EXCEPT ![iter + 1] = iter + 1]
    /\ exited' = Rebind(exited, iter + 1, <<>>, <<>>)
    /\ response' = Rebind(response, iter + 1, NoMsg, NoMsg)
    /\ resp' = Rebind(resp, iter + 1, NoMsg, NoMsg)
    /\ pubRet' = Rebind(pubRet, iter + 1, Nil, Nil)
    /\ subRet' = Rebind(subRet, iter + 1, Nil, Nil)
    /\ pubStream' = Rebind(pubStream, iter + 1, "none", "none")
    /\ subStream' = Rebind(subStream, iter + 1, "none", "none")
    /\ recvd' = Rebind(recvd, iter + 1, <<>>, <<>>)
    /\ sent' = Rebind(sent, iter + 1, <<>>, <<>>)
    /\ pubMd' = Rebind(pubMd, iter + 1, NotCalled, NotCalled)
    /\ subMd' = Rebind(subMd, iter + 1, NotCalled, NotCalled)
    /\ reqSent' = Rebind(reqSent, iter + 1, <<>>, <<>>)
    /\ UNCHANGED <<err, logged, nLogs, starts, tlsDialOption, destConn, targetConn>>
    /\ UNCHANGED <<pubPc, subPc, cfgVars>>

\* main.go:135-137: eg.Go(publish): wg.Add(1) and a new goroutine.
MainGoPublish ==
    /\ mainPc = "goPublish"
    /\ wg' = [wg EXCEPT ![iter] = @ + 1]
    /\ pubPc' = [pubPc EXCEPT ![iter] = "open"]
    /\ mainPc' = "goSubscribe"
    /\ UNCHANGED <<iter, err, logged, nLogs, starts, tlsDialOption, destConn, targetConn>>
    /\ UNCHANGED <<ctxDone, egErr, c, exited>>
    /\ UNCHANGED <<response, pubRet, pubStream, sent>>
    /\ UNCHANGED subVars
    /\ UNCHANGED <<cfgVars, callVars>>

\* main.go:138-140: eg.Go(subscribe): wg.Add(1) and a new goroutine.
MainGoSubscribe ==
    /\ mainPc = "goSubscribe"
    /\ wg' = [wg EXCEPT ![iter] = @ + 1]
    /\ subPc' = [subPc EXCEPT ![iter] = "open"]
    /\ starts' = starts + 1
    /\ mainPc' = "wait"
    /\ UNCHANGED <<iter, err, logged, nLogs, tlsDialOption, destConn, targetConn>>
    /\ UNCHANGED <<ctxDone, egErr, c, exited>>
    /\ UNCHANGED <<resp, subRet, subStream, recvd>>
    /\ UNCHANGED pubVars
    /\ UNCHANGED <<cfgVars, callVars>>

\* Mutant of MainWait: main goes on as soon as one session has reported an
\* error, without waiting for the other.
MainWait_first ==
    /\ mainPc = "wait"
    /\ egErr[iter] # Nil
    /\ ctxDone' = [ctxDone EXCEPT ![iter] = TRUE]
    /\ err' = egErr[iter]
    /\ mainPc' = "log"
    /\ UNCHANGED <<iter, logged, nLogs, starts, tlsDialOption, destConn, targetConn>>
    /\ UNCHANGED <<egErr, wg, c, exited>>
    /\ UNCHANGED <<pubVars, subVars, cfgVars, callVars>>

\* main.go:141: eg.Wait(): blocks until the WaitGroup is at zero, cancels the
\* context and returns the first error.
MainWait ==
    /\ mainPc = "wait"
    /\ wg[iter] = 0
    /\ ctxDone' = [ctxDone EXCEPT ![iter] = TRUE]
    /\ err' = egErr[iter]
    /\ mainPc' = "log"
    /\ UNCHANGED <<iter, logged, nLogs, starts, tlsDialOption, destConn, targetConn>>
    /\ UNCHANGED <<egErr, wg, c, exited>>
    /\ UNCHANGED <<pubVars, subVars, cfgVars, callVars>>

\* Mutant of MainLog: the error is logged with glog.Fatalf.
MainLog_fatal ==
    /\ mainPc = "log"
    /\ IF err # Nil
         THEN /\ logged' = err
              /\ nLogs' = nLogs + 1
              /\ mainPc' = "fatal"
         ELSE /\ logged' = logged
              /\ nLogs' = nLogs
              /\ mainPc' = "top"
    /\ UNCHANGED <<iter, err, starts, tlsDialOption, destConn, targetConn>>
    /\ UNCHANGED <<egVars, pubVars, subVars, cfgVars, callVars>>

\* main.go:142-145: log the error if there is one, and loop.
MainLog ==
    /\ mainPc = "log"
    /\ IF err # Nil
         THEN /\ logged' = err
              /\ nLogs' = nLogs + 1
         ELSE /\ logged' = logged
              /\ nLogs' = nLogs
    /\ mainPc' = "top"
    /\ UNCHANGED <<iter, err, starts, tlsDialOption, destConn, targetConn>>
    /\ UNCHANGED <<egVars, pubVars, subVars, cfgVars, callVars>>

\* ------------------------------------------------------------ publish
\* main.go:150-154: open the Publish stream on the iteration's context, as
\* main passed it.
PubOpen(k) ==
    /\ pubPc[k] = "open"
    /\ pubMd' = [pubMd EXCEPT ![k] = NoMd]
    /\ \/ /\ pubStream' = [pubStream EXCEPT ![k] = "open"]
          /\ pubPc' = [pubPc EXCEPT ![k] = "select"]
          /\ UNCHANGED <<pubRet, egVars>>
       \/ \E cause \in StreamFaults(k) :
            /\ pubStream' = [pubStream EXCEPT ![k] = "failed"]
            /\ pubPc' = [pubPc EXCEPT ![k] = "returned"]
            /\ pubRet' = [pubRet EXCEPT ![k] = Errorf("error from Publish", cause)]
            /\ Return(k, "pub")
    /\ UNCHANGED <<response, sent>>
    /\ UNCHANGED <<mainVars, subVars, cfgVars, subMd, reqSent>>

\* Mutant of PubSelectDone: publish ranges over c and never looks at ctx.
PubSelectDone_never(k) ==
    /\ pubPc[k] = "select"
    /\ FALSE
    /\ UNCHANGED vars

\* main.go:157-158: the select takes <-ctx.Done() and returns ctx.Err().
PubSelectDone(k) ==
    /\ pubPc[k] = "select"
    /\ ctxDone[k]
    /\ pubPc' = [pubPc EXCEPT ![k] = "returned"]
    /\ pubRet' = [pubRet EXCEPT ![k] = Canceled]
    /\ Return(k, "pub")
    /\ UNCHANGED <<response, pubStream, sent>>
    /\ UNCHANGED <<mainVars, subVars, cfgVars, callVars>>

\* Mutant of PubSendOk: the message is sent twice.
PubSendOk_twice(k) ==
    /\ pubPc[k] = "send"
    /\ sent' = [sent EXCEPT ![k] = Append(Append(@, response[k]), response[k])]
    /\ pubPc' = [pubPc EXCEPT ![k] = "select"]
    /\ UNCHANGED <<response, pubRet, pubStream>>
    /\ UNCHANGED <<mainVars, egVars, subVars, cfgVars, callVars>>

\* Mutant of PubSendOk: the response is dropped, stream.Send is not called.
PubSendOk_drop(k) ==
    /\ pubPc[k] = "send"
    /\ sent' = sent
    /\ pubPc' = [pubPc EXCEPT ![k] = "select"]
    /\ UNCHANGED <<response, pubRet, pubStream>>
    /\ UNCHANGED <<mainVars, egVars, subVars, cfgVars, callVars>>

\* main.go:160: stream.Send(response) succeeds; back to the select.
PubSendOk(k) ==
    /\ pubPc[k] = "send"
    /\ sent' = [sent EXCEPT ![k] = Append(@, response[k])]
    /\ pubPc' = [pubPc EXCEPT ![k] = "select"]
    /\ UNCHANGED <<response, pubRet, pubStream>>
    /\ UNCHANGED <<mainVars, egVars, subVars, cfgVars, callVars>>

\* main.go:160-162: stream.Send(response) fails; publish returns the error.
PubSendErr(k) ==
    /\ pubPc[k] = "send"
    /\ \E cause \in StreamFaults(k) :
        /\ pubRet' = [pubRet EXCEPT ![k] = Errorf("error from Publish.Send", cause)]
        /\ Return(k, "pub")
    /\ pubStream' = [pubStream EXCEPT ![k] = "failed"]
    /\ pubPc' = [pubPc EXCEPT ![k] = "returned"]
    /\ UNCHANGED <<response, sent>>
    /\ UNCHANGED <<mainVars, subVars, cfgVars, callVars>>

\* main.go:135-137: the closure returns what publish returned and the
\* errgroup takes it.
PubGoReturn(k) ==
    /\ pubPc[k] = "returned"
    /\ pubPc' = [pubPc EXCEPT ![k] = "registered"]
    /\ EgReturn(k, pubRet[k])
    /\ UNCHANGED <<response, pubRet, pubStream, sent>>
    /\ UNCHANGED <<mainVars, subVars, cfgVars, callVars>>

\* main.go:135: the goroutine eg.Go started for publish ends with wg.Done().
PubGoDone(k) ==
    /\ pubPc[k] = "registered"
    /\ pubPc' = [pubPc EXCEPT ![k] = "done"]
    /\ EgDone(k)
    /\ UNCHANGED <<response, pubRet, pubStream, sent>>
    /\ UNCHANGED <<mainVars, subVars, cfgVars, callVars>>

\* ------------------------------------------------------------ subscribe
\* main.go:169-198: build the request, attach the metadata to the context if
\* there is a username, open the Subscribe stream on it.
SubOpen(k) ==
    /\ subPc[k] = "open"
    /\ subMd' = [subMd EXCEPT ![k] = SubscribeMd(flags.username, flags.password)]
    /\ \/ /\ subStream' = [subStream EXCEPT ![k] = "open"]
          /\ subPc' = [subPc EXCEPT ![k] = "sendreq"]
          /\ UNCHANGED <<subRet, egVars>>
       \/ \E cause \in StreamFaults(k) :
            /\ subStream' = [subStream EXCEPT ![k] = "failed"]
            /\ subPc' = [subPc EXCEPT ![k] = "returned"]
            /\ subRet' = [subRet EXCEPT ![k] = Errorf("error from Subscribe", cause)]
            /\ Return(k, "sub")
    /\ UNCHANGED <<resp, recvd>>
    /\ UNCHANGED <<mainVars, pubVars, cfgVars, pubMd, reqSent>>

\* Mutant of SubSendReq: the error of stream.Send(request) is not looked at.
SubSendReq_unchecked(k) ==
    /\ subPc[k] = "sendreq"
    /\ reqSent' = [reqSent EXCEPT ![k] = Append(@, SubscribeRequest(flags.target, flags.paths))]
    /\ subPc' = [subPc EXCEPT ![k] = "recv"]
    /\ \/ UNCHANGED subStream
       \/ subStream' = [subStream EXCEPT ![k] = "failed"]
    /\ UNCHANGED <<subRet, egVars>>
    /\ UNCHANGED <<resp, recvd>>
    /\ UNCHANGED <<mainVars, pubVars, cfgVars, pubMd, subMd>>

\* main.go:199-201: send the SubscribeRequest built from the flags.
SubSendReq(k) ==
    /\ subPc[k] = "sendreq"
    /\ reqSent' = [reqSent EXCEPT ![k] = Append(@, SubscribeRequest(flags.target, flags.paths))]
    /\ \/ /\ subPc' = [subPc EXCEPT ![k] = "recv"]
          /\ UNCHANGED <<subRet, subStream, egVars>>
       \/ \E cause \in StreamFaults(k) :
            /\ subStream' = [subStream EXCEPT ![k] = "failed"]
            /\ subPc' = [subPc EXCEPT ![k] = "returned"]
            /\ subRet' = [subRet EXCEPT ![k] = Errorf("error sending SubscribeRequest", cause)]
            /\ Return(k, "sub")
    /\ UNCHANGED <<resp, recvd>>
    /\ UNCHANGED <<mainVars, pubVars, cfgVars, pubMd, subMd>>

\* main.go:204: stream.Recv() returns the next update of the target.
SubRecvMsg(k) ==
    /\ subPc[k] = "recv"
    /\ Len(recvd[k]) < MaxMsgs
    /\ \E v \in Msgs :
        LET m == [it |-> k, seq |-> Len(recvd[k]) + 1, val |-> v]
        IN  /\ resp' = [resp EXCEPT ![k] = m]
            /\ recvd' = [recvd EXCEPT ![k] = Append(@, m)]
    /\ subPc' = [subPc EXCEPT ![k] = "select"]
    /\ UNCHANGED <<subRet, subStream>>
    /\ UNCHANGED <<mainVars, egVars, pubVars, cfgVars, callVars>>

\* Mutant of SubRecvErr: the error of Recv is skipped and Recv is called again.
SubRecvErr_retry(k) ==
    /\ subPc[k] = "recv"
    /\ subStream[k] = "open"
    /\ subStream' = [subStream EXCEPT ![k] = "failed"]
    /\ UNCHANGED <<subPc, resp, subRet, recvd>>
    /\ UNCHANGED <<mainVars, egVars, pubVars, cfgVars, callVars>>

\* Mutant of SubRecvErr: io.EOF is the regular end of the stream, subscribe
\* returns nil for it.
SubRecvErr_eofnil(k) ==
    /\ subPc[k] = "recv"
    /\ \E cause \in StreamFaults(k) \cup {"eof"} :
        LET e == IF cause = "eof" THEN Nil ELSE Errorf("error from Subscribe.Recv", cause)
        IN  /\ subRet' = [subRet EXCEPT ![k] = e]
            /\ Return(k, "sub")
    /\ subStream' = [subStream EXCEPT ![k] = "failed"]
    /\ subPc' = [subPc EXCEPT ![k] = "returned"]
    /\ UNCHANGED <<resp, recvd>>
    /\ UNCHANGED <<mainVars, pubVars, cfgVars, callVars>>

\* main.go:204-207: stream.Recv() fails (io.EOF when the target closes the
\* stream); subscribe returns the error.
SubRecvErr(k) ==
    /\ subPc[k] = "recv"
    /\ \E cause \in StreamFaults(k) \cup {"eof"} :
        /\ subRet' = [subRet EXCEPT ![k] = Errorf("error from Subscribe.Recv", cause)]
        /\ Return(k, "sub")
    /\ subStream' = [subStream EXCEPT ![k] = "failed"]
    /\ subPc' = [subPc EXCEPT ![k] = "returned"]
    /\ UNCHANGED <<resp, recvd>>
    /\ UNCHANGED <<mainVars, pubVars, cfgVars, callVars>>

\* Mutant of SubSelectDone: a plain "c <- resp" without the select.
SubSelectDone_blocking(k) ==
    /\ subPc[k] = "select"
    /\ FALSE
    /\ UNCHANGED vars

\* main.go:209-210: the select takes <-ctx.Done() and returns ctx.Err().
SubSelectDone(k) ==
    /\ subPc[k] = "select"
    /\ ctxDone[k]
    /\ subPc' = [subPc EXCEPT ![k] = "returned"]
    /\ subRet' = [subRet EXCEPT ![k] = Canceled]
    /\ Return(k, "sub")
    /\ UNCHANGED <<resp, subStream, recvd>>
    /\ UNCHANGED <<mainVars, pubVars, cfgVars, callVars>>

\* main.go:138-140: the closure returns what subscribe returned and the
\* errgroup takes it.
SubGoReturn(k) ==
    /\ subPc[k] = "returned"
    /\ subPc' = [subPc EXCEPT ![k] = "registered"]
    /\ EgReturn(k, subRet[k])
    /\ UNCHANGED <<resp, subRet, subStream, recvd>>
    /\ UNCHANGED <<mainVars, pubVars, cfgVars, callVars>>

\* main.go:138: the goroutine eg.Go started for subscribe ends with wg.Done().
SubGoDone(k) ==
    /\ subPc[k] = "registered"
    /\ subPc' = [subPc EXCEPT ![k] = "done"]
    /\ EgDone(k)
    /\ UNCHANGED <<resp, subRet, subStream, recvd>>
    /\ UNCHANGED <<mainVars, pubVars, cfgVars, callVars>>

\* Mutant of Handoff: publish receives from c but sends the zero value of its
\* own variable (the received value is assigned to a shadowed variable).
Handoff_stale(ks, kp) ==
    /\ subPc[ks] = "select"
    /\ pubPc[kp] = "select"
    /\ c[ks] = c[kp]
    /\ response' = [response EXCEPT ![kp] = NoMsg]
    /\ pubPc' = [pubPc EXCEPT ![kp] = "send"]
    /\ subPc' = [subPc EXCEPT ![ks] = "recv"]
    /\ UNCHANGED <<pubRet, pubStream, sent>>
    /\ UNCHANGED <<resp, subRet, subStream, recvd>>
    /\ UNCHANGED <<mainVars, egVars, cfgVars, callVars>>

\* Mutant of Handoff: the select of subscribe has a default branch, so a
\* message publish is not ready for is dropped.
Handoff_default(ks, kp) ==
    /\ subPc[ks] = "select"
    /\ c[ks] = c[kp]
    /\ IF pubPc[kp] = "select"
         THEN /\ response' = [response EXCEPT ![kp] = resp[ks]]
              /\ pubPc' = [pubPc EXCEPT ![kp] = "send"]
         ELSE UNCHANGED <<response, pubPc>>
    /\ subPc' = [subPc EXCEPT ![ks] = "recv"]
    /\ UNCHANGED <<pubRet, pubStream, sent>>
    /\ UNCHANGED <<resp, subRet, subStream, recvd>>
    /\ UNCHANGED <<mainVars, egVars, cfgVars, callVars>>

\* main.go:211 and main.go:159: c is unbuffered (main.go:134), so "c <- resp"
\* of a subscribe and "response := <-c" of a publish complete together, when
\* both are in their select on the same channel.
Handoff(ks, kp) ==
    /\ subPc[ks] = "select"
    /\ pubPc[kp] = "select"
    /\ c[ks] = c[kp]
    /\ response' = [response EXCEPT ![kp] = resp[ks]]
    /\ pubPc' = [pubPc EXCEPT ![kp] = "send"]
    /\ subPc' = [subPc EXCEPT ![ks] = "recv"]
    /\ UNCHANGED <<pubRet, pubStream, sent>>
    /\ UNCHANGED <<resp, subRet, subStream, recvd>>
    /\ UNCHANGED <<mainVars, egVars, cfgVars, callVars>>

\* ------------------------------------------------------------ specification
MainStep ==
    \/ MainFlagParse
    \/ MainNewTLSConfig
    \/ MainDialDest
    \/ MainDialTarget
    \/ MainLoopTop
    \/ MainGoPublish
    \/ MainGoSubscribe
    \/ MainWait
    \/ MainLog

PubStep(k) ==
    \/ PubOpen(k)
    \/ PubSelectDone(k)
    \/ PubSendOk(k)
    \/ PubSendErr(k)
    \/ PubGoReturn(k)
    \/ PubGoDone(k)

SubStep(k) ==
    \/ SubOpen(k)
    \/ SubSendReq(k)
    \/ SubRecvMsg(k)
    \/ SubRecvErr(k)
    \/ SubSelectDone(k)
    \/ SubGoReturn(k)
    \/ SubGoDone(k)

Next ==
    \/ MainStep
    \/ \E k \in Iters : PubStep(k)
    \/ \E k \in Iters : SubStep(k)
    \/ \E ks \in Iters, kp \in Iters : Handoff(ks, kp)

Spec == Init /\ [][Next]_vars

\* The steps of the program while the target sends no update: the sessions
\* open their streams, subscribe sends its request and stays in Recv until
\* the call fails (it never gets to its select), publish stays in its select
\* until the context is cancelled.
SilentNext ==
    \/ MainStep
    \/ \E k \in Iters : PubOpen(k) \/ PubSelectDone(k) \/ PubGoReturn(k) \/ PubGoDone(k)
    \/ \E k \in Iters : SubOpen(k) \/ SubSendReq(k) \/ SubRecvErr(k) \/ SubGoReturn(k) \/ SubGoDone(k)

\* The program on every command line, with a target that sends no update.
\* What newTLSConfig returns and what the sessions put into their calls
\* depends on the flags alone, so it is explored for all flags here, and the
\* flow of updates under Spec.
ConfigSpec == ConfigInit /\ [][SilentNext]_vars

\* The goroutine scheduler is fair to main, and to a goroutine whose function
\* has returned: it runs on to its end in the errgroup.  A select whose
\* context is cancelled is taken, and a gRPC call on a stream whose context is
\* cancelled returns: a goroutine whose context is cancelled keeps taking steps.
\* Nothing is assumed of a stream call on a live context (it may block for
\* as long as the peer is silent).
FairSpec ==
    /\ Spec
    /\ WF_vars(MainStep)
    /\ \A k \in Iters : WF_vars(PubGoReturn(k) \/ PubGoDone(k))
    /\ \A k \in Iters : WF_vars(SubGoReturn(k) \/ SubGoDone(k))
    /\ \A k \in Iters : WF_vars(ctxDone[k] /\ PubStep(k))
    /\ \A k \in Iters : WF_vars(ctxDone[k] /\ SubStep(k))

\* As FairSpec, and moreover: the scheduler is fair to both sessions, the
\* calls that open a stream or send on it return, and a handoff both sides
\* wait for takes place.  Only stream.Recv() may block for ever, as long as
\* the context is live.
FairIOSpec ==
    /\ Spec
    /\ WF_vars(MainStep)
    /\ \A k \in Iters : WF_vars(PubStep(k) \/ Handoff(k, k))
    /\ \A k \in Iters : WF_vars(SubOpen(k) \/ SubSendReq(k) \/ SubSelectDone(k) \/ SubGoReturn(k) \/ SubGoDone(k))
    /\ \A k \in Iters : WF_vars(ctxDone[k] /\ SubStep(k))

\* ------------------------------------------------------------ helpers of the claims
IsPrefix(s, t) == Len(s) <= Len(t) /\ \A i \in 1..Len(s) : s[i] = t[i]

\* eg.Wait() of iteration k has returned.
Ended(k) == k < iter \/ (k = iter /\ mainPc \in {"log", "top"})

\* main is inside the retry loop (main.go:127-145).
InLoop == mainPc \in {"top", "goPublish", "goSubscribe", "wait", "log"}

\* The goroutines of the current iteration exist and main is in eg.Wait():
\* goroutines of other iterations are not running (C2), so what is said of
\* a running session is said of the current iteration.
Waiting == mainPc = "wait"

\* The error returned by the session of iteration k that returned first.
FirstErr(k) ==
    IF exited[k] = <<>> THEN Nil
    ELSE IF Head(exited[k]) = "pub" THEN pubRet[k] ELSE subRet[k]

\* ------------------------------------------------------------ C1
\* C1: in every reachable state and for every iteration, the messages sent on
\* the collector stream are a prefix of the messages received from the target
\* stream in that iteration: same messages, same order, no duplicate, no gap.
OrderPreserved == \A k \in Iters : IsPrefix(sent[k], recvd[k])

\* Two different messages were received and both were sent.
OrderPreservedWitness ==
    \E k \in Iters :
        /\ Len(sent[k]) = 2
        /\ sent[k] = recvd[k]
        /\ sent[k][1].val # sent[k][2].val

\* ------------------------------------------------------------ C2
\* C2: at no instant is more than one subscribe or more than one publish
\* running, and a goroutine that runs belongs to the current iteration:
\* iteration k+1 starts only after both goroutines of iteration k returned.
Pairing ==
    /\ Cardinality({k \in Iters : PubActive(k)}) <= 1
    /\ Cardinality({k \in Iters : SubActive(k)}) <= 1
    /\ \A k \in Iters :
        (PubActive(k) \/ SubActive(k)) => (k = iter /\ mainPc \in {"goSubscribe", "wait"})

\* Both sessions of the second iteration run, those of the first have returned.
PairingWitness ==
    /\ iter = 2
    /\ PubActive(2) /\ SubActive(2)
    /\ pubPc[1] = "done" /\ subPc[1] = "done"

\* ------------------------------------------------------------ C3
\* C3 as stated: once the scope is cancelled, the next step a running session
\* takes is its exit.
CancelWithinOneStep ==
    [][\A k \in Iters :
        /\ (ctxDone[k] /\ PubActive(k) /\ pubPc'[k] # pubPc[k]) => PubReturned(k)'
        /\ (ctxDone[k] /\ SubActive(k) /\ subPc'[k] # subPc[k]) => SubReturned(k)']_vars

\* C3 amended: a session that waits in its select when the scope is cancelled
\* exits in its next step, with the cancellation error; a session that is in a
\* stream call first gets the result of that call; and no session stays
\* active for ever once its sibling has returned.
CancelPropagation ==
    /\ [][\A k \in Iters :
            /\ (ctxDone[k] /\ pubPc[k] = "select" /\ pubPc'[k] # "select")
                  => (pubPc'[k] = "returned" /\ pubRet'[k] = Canceled)
            /\ (ctxDone[k] /\ subPc[k] = "select" /\ subPc'[k] # "select")
                  => (subPc'[k] = "returned" /\ subRet'[k] = Canceled)]_vars
    /\ (Waiting /\ SubReturned(iter) /\ PubActive(iter)) ~> (~Waiting \/ ~PubActive(iter))
    /\ (Waiting /\ PubReturned(iter) /\ SubActive(iter)) ~> (~Waiting \/ ~SubActive(iter))

\* subscribe failed on its stream and publish left its select with the
\* cancellation error.
CancelPropagationWitness ==
    \E k \in Iters :
        /\ exited[k] = <<"sub", "pub">>
        /\ subRet[k].cause = "fault"
        /\ pubRet[k] = Canceled

\* ------------------------------------------------------------ C4
\* C4: the loop is never left; every iteration that ends is followed by a new
\* one with a new scope, a new channel and a new pair of sessions; after N
\* logged failures N+1 pairs have been started.
RestartLiveness ==
    /\ [][/\ InLoop => InLoop'
          /\ mainPc' = "wait" => starts' = nLogs' + 1
          /\ starts' \in {nLogs', nLogs' + 1}
          /\ mainPc' = "goPublish" =>
                /\ ~ctxDone'[iter'] /\ egErr'[iter'] = Nil /\ wg'[iter'] = 0
                /\ \A j \in 1..(iter' - 1) : c'[j] # c'[iter']
                /\ pubPc'[iter'] = "idle" /\ subPc'[iter'] = "idle"]_vars
    /\ \A n \in 1..(MaxIter - 1) :
          (mainPc = "top" /\ nLogs = n) ~> (mainPc = "wait" /\ starts = n + 1 /\ iter = n + 1)

\* Two iterations have failed and the third pair is running.
RestartLivenessWitness ==
    /\ nLogs = 2
    /\ starts = 3
    /\ PubActive(3) /\ SubActive(3)

\* ------------------------------------------------------------ C5
\* C5: a subscribe that waits in its select with a received message while the
\* scope is cancelled abandons the send and returns the cancellation error,
\* and no subscribe waits on the channel for ever after publish has returned.
SendRacesCancel ==
    /\ [][\A k \in Iters :
            (ctxDone[k] /\ subPc[k] = "select" /\ subPc'[k] # "select")
                => /\ subPc'[k] = "returned"
                   /\ subRet'[k] = Canceled
                   /\ response' = response
                   /\ sent' = sent]_vars
    /\ (Waiting /\ subPc[iter] = "select" /\ PubReturned(iter))
            ~> (~Waiting \/ subPc[iter] = "done")

\* publish failed, and subscribe gave up the message it held.
SendRacesCancelWitness ==
    \E k \in Iters :
        /\ exited[k] = <<"pub", "sub">>
        /\ subRet[k] = Canceled
        /\ resp[k] # NoMsg
        /\ response[k] # resp[k]

\* ------------------------------------------------------------ C6
\* C6: under fair scheduling, the n-th message received in an iteration is
\* eventually the n-th message sent on the collector stream, unless a session
\* fails (which cancels the scope).
DeliveredUnlessCancelled ==
    \A n \in 1..MaxMsgs :
        (Waiting /\ Len(recvd[iter]) >= n)
            ~> \/ ~Waiting
               \/ ctxDone[iter]
               \/ (Len(sent[iter]) >= n /\ sent[iter][n] = recvd[iter][n])

\* Both messages were delivered in an iteration nobody has cancelled.
DeliveredWitness ==
    \E k \in Iters :
        /\ ~ctxDone[k]
        /\ Len(recvd[k]) = 2
        /\ sent[k] = recvd[k]

\* ------------------------------------------------------------ C7
\* C7: every iteration has a channel of its own; the collector stream of
\* iteration k carries only messages received in iteration k; and once
\* iteration k has ended nothing more is sent on its stream: a message in
\* flight at that time is dropped.
ChannelScoped ==
    [][\A k \in Iters :
        /\ \A i \in 1..Len(sent'[k]) : sent'[k][i].it = k
        /\ \A j \in 1..iter' : (k <= iter' /\ j # k) => c'[j] # c'[k]
        /\ Ended(k) => (sent'[k] = sent[k] \/ sent'[k] = <<>>)]_vars

\* The second iteration has ended with a message received and not sent.
ChannelScopedWitness ==
    /\ iter = 2
    /\ mainPc = "top"
    /\ Len(recvd[2]) = 2
    /\ Len(sent[2]) = 1

\* ------------------------------------------------------------ C8
\* C8: subscribe receives the next message only after publish has taken the
\* previous one from the channel: the messages received are the ones publish
\* took, plus at most the one subscribe holds in its select.
Backpressure ==
    \A k \in Iters :
        /\ Len(recvd[k]) - response[k].seq \in {0, 1}
        /\ subPc[k] = "recv" => response[k].seq = Len(recvd[k])
        /\ subPc[k] = "select" =>
              /\ Len(recvd[k]) = response[k].seq + 1
              /\ resp[k] = recvd[k][Len(recvd[k])]

\* subscribe holds the second message while publish is sending the first.
BackpressureWitness ==
    \E k \in Iters :
        /\ subPc[k] = "select"
        /\ pubPc[k] = "send"
        /\ resp[k].seq = 2
        /\ response[k].seq = 1

\* ------------------------------------------------------------ C9
\* C9 as stated: what main logs for an iteration is the error of the session
\* that failed first.
FirstFailureLogged ==
    [][nLogs' # nLogs => logged' = FirstErr(iter)]_vars

\* C9 amended: what main logs for an iteration is the error the errgroup was
\* handed first, which is the one that cancelled the context: an error of a
\* stream call made on the live context, never the cancellation error nor an
\* error a session returned after the cancellation.  It is logged after both
\* goroutines have ended and before the next iteration.
TriggeringErrorLogged ==
    [][/\ \A k \in Iters :
            /\ (egErr[k] = Nil /\ egErr'[k] # Nil) =>
                    /\ ~ctxDone[k] /\ ctxDone'[k]
                    /\ egErr'[k].cause # "canceled"
                    /\ \/ pubPc[k] = "returned" /\ pubPc'[k] = "registered" /\ egErr'[k] = pubRet[k]
                       \/ subPc[k] = "returned" /\ subPc'[k] = "registered" /\ egErr'[k] = subRet[k]
            /\ (~ctxDone[k] /\ ctxDone'[k]) => (egErr[k] = Nil /\ egErr'[k] # Nil)
            /\ egErr[k] # Nil => egErr'[k] \in {egErr[k], Nil}
            /\ (ctxDone[k] /\ egErr'[k] # Nil) => egErr'[k] = egErr[k]
       /\ nLogs' # nLogs =>
            /\ pubPc[iter] = "done" /\ subPc[iter] = "done"
            /\ logged' = egErr[iter]
            /\ logged' \in {pubRet[iter], subRet[iter]}
            /\ logged' # Nil
            /\ logged'.cause # "canceled"
            /\ iter' = iter
            /\ mainPc' = "top"]_vars

\* Both stream calls failed on the live context; publish returned first and
\* the errgroup was handed subscribe's error first: subscribe's is logged.
TriggeringErrorWitness ==
    /\ mainPc = "top"
    /\ iter >= 1
    /\ exited[iter] = <<"pub", "sub">>
    /\ pubRet[iter].cause = "fault"
    /\ subRet[iter].cause = "fault"
    /\ logged = subRet[iter]

\* ------------------------------------------------------------ C10
\* C10: a session whose stream call failed (a clean closure of the target
\* stream included) has returned a non-nil error to the errgroup and takes no
\* further step; a session that returned is never started again, and sessions
\* are started only by main, publish first and subscribe right after it.
NoInPlaceRetry ==
    [][\A k \in Iters :
        /\ subStream'[k] = "failed" => (SubReturned(k)' /\ subRet'[k] # Nil)
        /\ pubStream'[k] = "failed" => (PubReturned(k)' /\ pubRet'[k] # Nil)
        /\ (subPc[k] = "returned" /\ subPc'[k] # "returned") =>
                (subPc'[k] = "registered" /\ egErr'[k] # Nil /\ subStream' = subStream)
        /\ (pubPc[k] = "returned" /\ pubPc'[k] # "returned") =>
                (pubPc'[k] = "registered" /\ egErr'[k] # Nil /\ pubStream' = pubStream)
        /\ (subPc[k] = "registered" /\ subPc'[k] # "registered") =>
                (subPc'[k] = "done" /\ subStream' = subStream)
        /\ (pubPc[k] = "registered" /\ pubPc'[k] # "registered") =>
                (pubPc'[k] = "done" /\ pubStream' = pubStream)
        /\ pubPc[k] = "done" => pubPc'[k] = "done"
        /\ subPc[k] = "done" => subPc'[k] = "done"
        /\ (pubPc[k] = "idle" /\ pubPc'[k] # "idle")
              => (mainPc = "goPublish" /\ k = iter /\ subPc[k] = "idle")
        /\ (subPc[k] = "idle" /\ subPc'[k] # "idle")
              => (mainPc = "goSubscribe" /\ k = iter /\ pubPc[k] # "idle")]_vars

\* The target closed the stream; subscribe returned and publish followed.
NoInPlaceRetryWitness ==
    \E k \in Iters :
        /\ subRet[k] = Errorf("error from Subscribe.Recv", "eof")
        /\ subStream[k] = "failed"
        /\ pubRet[k] = Canceled
        /\ mainPc = "top"

\* ------------------------------------------------------------ C11
\* C11: an error of newTLSConfig or of a dial ends the process before any
\* session was started; inside the retry loop nothing ends the process: the
\* error of an iteration is logged and main is back at the top of the loop.
StartupVersusRuntime ==
    [][/\ mainPc' = "fatal" =>
            /\ iter' = 0 /\ starts' = 0 /\ nLogs' = 0
            /\ \A k \in Iters : pubPc'[k] = "idle" /\ subPc'[k] = "idle"
       /\ (mainPc = "newTLSConfig" /\ tlsDialOption' = NoOption) => mainPc' = "fatal"
       /\ (mainPc = "dialDest" /\ destConn' = destConn) => mainPc' = "fatal"
       /\ (mainPc = "dialTarget" /\ targetConn' = targetConn) => mainPc' = "fatal"
       /\ InLoop => InLoop'
       /\ mainPc = "log" => (mainPc' = "top" /\ (err # Nil => (logged' = err /\ nLogs' = nLogs + 1)))]_vars

\* The dial of the target failed: the process ended with no session started.
StartupVersusRuntimeWitness ==
    /\ mainPc = "fatal"
    /\ logged.op = "error dialing target"
    /\ destConn = 1
    /\ starts = 0

\* ------------------------------------------------------------ C12
\* The flags name a certificate file and no key file.
CertWithoutKey ==
    tlsCall.called /\ tlsCall.certFile # "" /\ tlsCall.keyFile = ""

\* newTLSConfig returned an error: main ended before any dial.
ConfigError ==
    /\ mainPc = "fatal"
    /\ logged.op = "newTLSConfig"
    /\ tlsDialOption = NoOption
    /\ destConn = 0 /\ targetConn = 0

\* C12 as stated: a certificate file without a key file is a configuration
\* error for every combination of the other flags, the use-TLS flag included.
CertWithoutKeyAlwaysError ==
    CertWithoutKey => ConfigError

\* C12: with TLS enabled, a certificate file without a key file is a
\* configuration error, raised before any connection is dialed; with TLS
\* disabled the certificate flags are not looked at and there is no error.
CertWithoutKeyError ==
    /\ (CertWithoutKey /\ tlsCall.useTLS) => ConfigError
    /\ (CertWithoutKey /\ ~tlsCall.useTLS) =>
            (mainPc = "dialDest" /\ tlsDialOption = WithInsecure)

\* TLS enabled, no CA problem, certificate without key: the missing-key error.
CertWithoutKeyWitness ==
    /\ CertWithoutKey /\ tlsCall.useTLS /\ tlsCall.skipVerify
    /\ ConfigError
    /\ logged.cause = "please provide both -collector_certfile and -collector_keyfile"

\* ------------------------------------------------------------ C13
\* C13: the decision table of newTLSConfig.  TLS disabled: the insecure option
\* and no error, whatever the other flags.  TLS enabled with skip-verify: the
\* CA file is not read (no error comes from it) and the option accepts any
\* server certificate.  TLS enabled without skip-verify and with a CA file: an
\* unreadable or unparsable file is an error, otherwise the file is the root
\* set of the option.
CredentialTable ==
    tlsCall.called =>
        /\ mainPc \in {"fatal", "dialDest"}
        /\ mainPc = "fatal" <=> tlsDialOption = NoOption
        /\ ~tlsCall.useTLS =>
                (mainPc = "dialDest" /\ tlsDialOption = WithInsecure)
        /\ (tlsCall.useTLS /\ tlsCall.skipVerify) =>
                /\ mainPc = "fatal" =>
                        logged.cause \notin {"ReadFile", "credentials: failed to append certificates"}
                /\ mainPc = "dialDest" =>
                        /\ tlsDialOption.kind = "tls"
                        /\ tlsDialOption.skipVerify
                        /\ tlsDialOption.rootCAs = "system"
        /\ (tlsCall.useTLS /\ ~tlsCall.skipVerify /\ tlsCall.caFile # "") =>
                /\ ~tlsCall.fs.caRead =>
                        (mainPc = "fatal" /\ logged = Errorf("newTLSConfig", "ReadFile"))
                /\ (tlsCall.fs.caRead /\ ~tlsCall.fs.caPEM) =>
                        /\ mainPc = "fatal"
                        /\ logged = Errorf("newTLSConfig", "credentials: failed to append certificates")
                /\ mainPc = "dialDest" =>
                        /\ tlsDialOption.kind = "tls"
                        /\ ~tlsDialOption.skipVerify
                        /\ tlsDialOption.rootCAs = "file"

\* Skip-verify with a CA file that cannot be read: no error, any server
\* certificate is accepted.
CredentialTableWitness ==
    /\ tlsCall.called /\ tlsCall.useTLS /\ tlsCall.skipVerify
    /\ tlsCall.caFile # "" /\ ~tlsCall.fs.caRead
    /\ mainPc = "dialDest"
    /\ tlsDialOption.skipVerify

\* ------------------------------------------------------------ C14
\* C14: in every iteration the subscribe session sends exactly one
\* subscription request on the target stream, after the stream was opened and
\* before the first receive; when opening the stream or sending the request
\* fails the session has returned without receiving or handing off anything.
SubscribeProtocol ==
    \A k \in Iters :
        /\ Len(reqSent[k]) <= 1
        /\ subPc[k] \in {"idle", "open"} => reqSent[k] = <<>>
        /\ subPc[k] = "sendreq" => (subStream[k] = "open" /\ reqSent[k] = <<>>)
        /\ subPc[k] \in {"recv", "select"} =>
                (subStream[k] = "open" /\ Len(reqSent[k]) = 1)
        /\ (recvd[k] # <<>> \/ resp[k] # NoMsg) => Len(reqSent[k]) = 1
        /\ subRet[k].op = "error from Subscribe" =>
                /\ SubReturned(k)
                /\ reqSent[k] = <<>>
                /\ recvd[k] = <<>> /\ resp[k] = NoMsg /\ response[k] = NoMsg
        /\ subRet[k].op = "error sending SubscribeRequest" =>
                /\ SubReturned(k)
                /\ Len(reqSent[k]) = 1
                /\ recvd[k] = <<>> /\ resp[k] = NoMsg /\ response[k] = NoMsg

\* The second iteration received two updates after its one request.
SubscribeProtocolWitness ==
    /\ iter = 2
    /\ Len(recvd[2]) = 2
    /\ Len(reqSent[2]) = 1
    /\ subPc[2] = "select"

\* ------------------------------------------------------------ C15
\* C15: every subscription request carries the configured target value in its
\* prefix and one subscription entry per -subscribe flag, in the order of the
\* command line with duplicates kept, each with mode TARGET_DEFINED; the
\* flags do not change once flag.Parse has returned, so the requests of all
\* iterations are the same.  (A command line with a -subscribe value that is
\* no path ends the process in flag.Parse: no request is sent.)
RequestContents ==
    [][/\ mainPc # "flagParse" => flags' = flags
       /\ mainPc' = "exit" =>
            (mainPc = "flagParse" /\ \E i \in 1..Len(flags.subscribe) : ParsePath(flags.subscribe[i]).err)
       /\ \A k \in Iters : \A n \in 1..Len(reqSent'[k]) :
            LET request == reqSent'[k][n]
            IN  /\ request.prefix.target = flags.target
                /\ Len(request.subscription) = Len(flags.subscribe)
                /\ \A i \in 1..Len(flags.subscribe) :
                        /\ ~ParsePath(flags.subscribe[i]).err
                        /\ request.subscription[i].path = ParsePath(flags.subscribe[i]).path
                        /\ request.subscription[i].mode = "TARGET_DEFINED"]_vars

\* The same path was configured twice and the second iteration sent its
\* request with both entries.
RequestContentsWitness ==
    /\ flags.subscribe = <<"/a", "/a">>
    /\ flags.target = "dev1"
    /\ iter = 2
    /\ Len(reqSent[2]) = 1
    /\ Len(reqSent[2][1].subscription) = 2

\* ------------------------------------------------------------ C16
\* C16: the context of the Subscribe call carries the username/password pairs
\* exactly when the configured username is non-empty, whatever the password;
\* the context of the Publish call never carries them.
AuthMetadata ==
    \A k \in Iters :
        /\ subPc[k] \in {"sendreq", "recv", "select"} => subMd[k] # NotCalled
        /\ subMd[k] # NotCalled =>
                /\ subMd[k].pairs <=> flags.username # ""
                /\ subMd[k].pairs =>
                        /\ subMd[k].username = flags.username
                        /\ subMd[k].password = flags.password
        /\ pubPc[k] \in {"select", "send"} => pubMd[k] # NotCalled
        /\ ~pubMd[k].pairs

\* A username without a password: the pairs are on the Subscribe call of the
\* second iteration and not on its Publish call.
AuthMetadataWitness ==
    /\ flags.username = "admin" /\ flags.password = ""
    /\ iter = 2
    /\ subMd[2] = MdPairs("admin", "")
    /\ pubMd[2] = NoMd

\* ------------------------------------------------------------ C17
\* C17: the collector and the target are each dialed once, before the first
\* iteration; inside the loop no step dials again or touches the connections,
\* while every iteration starts without streams and opens its own Publish and
\* Subscribe streams on those connections.
ConnectionReuse ==
    [][/\ InLoop' => (destConn' = 1 /\ targetConn' = 1)
       /\ InLoop =>
            /\ destConn' = destConn
            /\ targetConn' = targetConn
            /\ tlsDialOption' = tlsDialOption
       /\ iter' # iter =>
            (pubStream'[iter'] = "none" /\ subStream'[iter'] = "none")
       /\ \A k \in Iters :
            /\ (pubStream[k] # "open" /\ pubStream'[k] = "open") =>
                    (k = iter /\ pubStream[k] = "none" /\ destConn = 1)
            /\ (subStream[k] # "open" /\ subStream'[k] = "open") =>
                    (k = iter /\ subStream[k] = "none" /\ targetConn = 1)
            /\ pubPc'[k] \in {"select", "send"} => pubStream'[k] = "open"
            /\ subPc'[k] \in {"sendreq", "recv", "select"} => subStream'[k] = "open"]_vars

\* The second iteration has both streams open on the connections dialed at
\* startup.
ConnectionReuseWitness ==
    /\ iter = 2
    /\ pubStream[2] = "open" /\ subStream[2] = "open"
    /\ destConn = 1 /\ targetConn = 1

\* ------------------------------------------------------------ C18
\* C18: every return of publish and of subscribe carries a non-nil error, so
\* the errgroup cancels the context for the first one it is handed: no
\* goroutine has handed over its result or ended while the context is live, a session that has returned
\* does not leave the context uncancelled, Wait returns a non-nil error and
\* every iteration that ends is logged.
NoNilExit ==
    /\ [][/\ \A k \in Iters :
                /\ (pubPc[k] # "returned" /\ pubPc'[k] = "returned") => pubRet'[k] # Nil
                /\ (subPc[k] # "returned" /\ subPc'[k] = "returned") => subRet'[k] # Nil
                /\ (pubPc[k] = "returned" /\ pubPc'[k] # "returned") =>
                        (pubPc'[k] = "registered" /\ ctxDone'[k] /\ egErr'[k] # Nil)
                /\ (subPc[k] = "returned" /\ subPc'[k] # "returned") =>
                        (subPc'[k] = "registered" /\ ctxDone'[k] /\ egErr'[k] # Nil)
                /\ (pubPc[k] # "done" /\ pubPc'[k] = "done") => pubPc[k] = "registered"
                /\ (subPc[k] # "done" /\ subPc'[k] = "done") => subPc[k] = "registered"
                /\ (k = iter' /\ pubPc'[k] \in {"registered", "done"}) => ctxDone'[k]
                /\ (k = iter' /\ subPc'[k] \in {"registered", "done"}) => ctxDone'[k]
          /\ mainPc' = "log" => err' # Nil
          /\ mainPc = "log" => (logged' = err /\ nLogs' = nLogs + 1)
          /\ mainPc' = "top" => nLogs' = iter']_vars
    /\ (Waiting /\ (pubPc[iter] = "returned" \/ subPc[iter] = "returned"))
            ~> (~Waiting \/ ctxDone[iter])

\* The target closed the stream: subscribe returned the io.EOF error, the
\* errgroup cancelled the context and publish has not returned yet.
NoNilExitWitness ==
    \E k \in Iters :
        /\ exited[k] = <<"sub">>
        /\ subRet[k] = Errorf("error from Subscribe.Recv", "eof")
        /\ subPc[k] = "done"
        /\ ctxDone[k]
        /\ PubActive(k)

\* ------------------------------------------------------------ C19
\* C19: once the context of an iteration is cancelled no message goes over the
\* iteration's channel, and no select has both its branches ready: when
\* <-ctx.Done() is ready the channel has no partner.
NoHandoffAfterCancel ==
    \A ks \in Iters, kp \in Iters :
        /\ ENABLED Handoff(ks, kp) => (~ctxDone[ks] /\ ~ctxDone[kp])
        /\ ~(ENABLED Handoff(ks, kp) /\ ENABLED PubSelectDone(kp))
        /\ ~(ENABLED Handoff(ks, kp) /\ ENABLED SubSelectDone(ks))

\* publish is at its select with the context cancelled by subscribe's return:
\* only the <-ctx.Done() branch is ready.
NoHandoffAfterCancelWitness ==
    \E k \in Iters :
        /\ pubPc[k] = "select" /\ subPc[k] = "done"
        /\ exited[k] = <<"sub">>
        /\ ctxDone[k]
        /\ ENABLED PubSelectDone(k)
        /\ ~ENABLED Handoff(k, k)

\* ------------------------------------------------------------ C20
\* The message subscribe received and has not handed to publish.
HeldBySubscribe(k) == IF resp[k].seq > response[k].seq THEN 1 ELSE 0

\* The message publish took from the channel and has not sent.
HeldByPublish(k) == IF response[k].seq > Len(sent[k]) THEN 1 ELSE 0

\* C20: the messages received in an iteration and not sent to the collector
\* are the one subscribe holds for the handoff and the one publish took and
\* has not sent: at most 2, which is what is lost when the iteration ends.
BoundedLoss ==
    \A k \in Iters :
        /\ Len(recvd[k]) - Len(sent[k]) = HeldBySubscribe(k) + HeldByPublish(k)
        /\ Len(recvd[k]) - Len(sent[k]) \in 0..2
        /\ HeldBySubscribe(k) = 1 => resp[k] = recvd[k][Len(recvd[k])]
        /\ HeldByPublish(k) = 1 => response[k] = recvd[k][Len(sent[k]) + 1]

\* Two messages are lost: subscribe held the second and publish the first
\* when the sessions returned.
BoundedLossWitness ==
    \E k \in Iters :
        /\ Len(recvd[k]) - Len(sent[k]) = 2
        /\ pubPc[k] = "done" /\ subPc[k] = "done"
        /\ mainPc = "log"

====
